---- MODULE Spec2Model ----
(***************************************************************************)
(* Model of the selector normalisation / classification core of            *)
(* selenium_selector_parser (utils.py, validators.py).                     *)
(*                                                                         *)
(* A Python str is a sequence of one-character strings.  A Python value    *)
(* handed to an entry point is a record [py, s, truthy]: py is the type    *)
(* name, s the characters of a str, truthy the value's truth value.        *)
(* A call's outcome is a record [exc, msg, val]: exc = "none" when the     *)
(* call returned val, otherwise the name of the exception it raised.       *)
(***************************************************************************)
EXTENDS Integers, Sequences, FiniteSets, TLC

\* ------------------------------------------------------------------------
\* Characters
\* ------------------------------------------------------------------------
Lower == {"a","b","c","d","e","f","g","h","i","j","k","l","m",
          "n","o","p","q","r","s","t","u","v","w","x","y","z"}

Upper == {"A","B","C","D","E","F","G","H","I","J","K","L","M",
          "N","O","P","Q","R","S","T","U","V","W","X","Y","Z"}

Letters == Lower \cup Upper

Digits == {"0","1","2","3","4","5","6","7","8","9"}

\* Python's str.split() / str.strip() / regex \s whitespace (ASCII part).
PySpace == {" ", "\t", "\n", "\r", "\f"}

\* regex [\w-]
WordHyphen == Letters \cup Digits \cup {"_", "-"}

\* ------------------------------------------------------------------------
\* Python str primitives
\* ------------------------------------------------------------------------
Slice(s, i, j) == IF i > j THEN <<>> ELSE SubSeq(s, i, j)

StartsWithAt(s, pos, p) ==
    /\ pos + Len(p) - 1 <= Len(s)
    /\ \A k \in 1..Len(p) : s[pos + k - 1] = p[k]

StartsWith(s, p) == StartsWithAt(s, 1, p)

\* first index >= pos whose character is not in S (Len(s)+1 when none)
SkipWhile(s, pos, S) ==
    IF \E k \in pos..Len(s) : s[k] \notin S
    THEN CHOOSE k \in pos..Len(s) :
             s[k] \notin S /\ \A j \in pos..(k - 1) : s[j] \in S
    ELSE IF pos > Len(s) THEN pos ELSE Len(s) + 1

\* first index >= pos whose character is in S (Len(s)+1 when none)
SkipUntil(s, pos, S) ==
    IF \E k \in pos..Len(s) : s[k] \in S
    THEN CHOOSE k \in pos..Len(s) :
             s[k] \in S /\ \A j \in pos..(k - 1) : s[j] \notin S
    ELSE IF pos > Len(s) THEN pos ELSE Len(s) + 1

\* last index <= pos whose character is not in S (0 when none)
SkipBack(s, pos, S) ==
    IF \E k \in 1..pos : s[k] \notin S
    THEN CHOOSE k \in 1..pos :
             s[k] \notin S /\ \A j \in (k + 1)..pos : s[j] \in S
    ELSE 0

\* str.strip()
Strip(s) == Slice(s, SkipWhile(s, 1, PySpace), SkipBack(s, Len(s), PySpace))

\* str.find(c, pos) for a one-character c: 0 when absent
IndexOf(s, pos, c) ==
    IF \E k \in pos..Len(s) : s[k] = c
    THEN SkipUntil(s, pos, {c})
    ELSE 0

\* str.find(p, pos) for a text p: 0 when absent
FindSeq(s, pos, p) ==
    IF \E k \in pos..Len(s) : StartsWithAt(s, k, p)
    THEN CHOOSE k \in pos..Len(s) :
             StartsWithAt(s, k, p) /\ \A j \in pos..(k - 1) : ~StartsWithAt(s, j, p)
    ELSE 0

\* the characters of s that are not whitespace, in order
NonSpace(s) == SelectSeq(s, LAMBDA c : c \notin PySpace)

\* " ".join(s.split()): the words of s (maximal runs of non-whitespace)
\* separated by single spaces.  Character k is kept when it is no
\* whitespace; one space is kept for a whitespace run that has a word on
\* both sides (its last character stands for it).
KeptByCollapse(s, k) ==
    \/ s[k] \notin PySpace
    \/ /\ k < Len(s)
       /\ s[k + 1] \notin PySpace
       /\ \E j \in 1..(k - 1) : s[j] \notin PySpace

CollapseMarks(s) ==
    [k \in 1..Len(s) |-> IF KeptByCollapse(s, k)
                         THEN (IF s[k] \in PySpace THEN " " ELSE s[k])
                         ELSE ""]

CollapseWhitespace(s) == SelectSeq(CollapseMarks(s), LAMBDA c : c # "")

\* re.sub(r"\s*X\s*", "X", s) for X any character of the set S: every run
\* of whitespace that touches a character of S is deleted.  Character k of
\* a whitespace run goes when the run is bounded by a character of S.
TouchesSet(s, k, S) ==
    \/ LET e == SkipWhile(s, k, PySpace) IN e <= Len(s) /\ s[e] \in S
    \/ LET b == SkipBack(s, k, PySpace) IN b >= 1 /\ s[b] \in S

RemoveMarks(s, S) ==
    [k \in 1..Len(s) |-> IF s[k] \in PySpace /\ TouchesSet(s, k, S)
                         THEN "" ELSE s[k]]

RemoveSpaceAround(s, S) == SelectSeq(RemoveMarks(s, S), LAMBDA c : c # "")

RECURSIVE SplitOn(_, _)
\* str.split(c) for a one-character separator: never empty, keeps empty parts
SplitOn(s, c) ==
    IF IndexOf(s, 1, c) = 0 THEN <<s>>
    ELSE <<Slice(s, 1, IndexOf(s, 1, c) - 1)>>
         \o SplitOn(Slice(s, IndexOf(s, 1, c) + 1, Len(s)), c)

RECURSIVE JoinWith(_, _)
\* sep.join(parts)
JoinWith(parts, sep) ==
    IF Len(parts) <= 1 THEN (IF parts = <<>> THEN <<>> ELSE parts[1])
    ELSE parts[1] \o sep \o JoinWith(Tail(parts), sep)

\* ------------------------------------------------------------------------
\* tinycss2.parse_component_value_list and Node.serialize (tinycss2 >= 1.4,
\* the version setup.py requires), on text without backslash escapes,
\* non-ASCII characters, url( and unicode-range (u+..) tokens.
\* A token is [type, value, text, stype, sup]:
\*   type   Node.type;  value  the .value of ident / hash / string tokens;
\*   text   the token's own serialization;
\*   stype  what the serializer compares for BAD_PAIRS (the type, or a
\*          literal's characters);
\*   sup    TRUE for an eof-in-string error and for a function block that
\*          ends in one (FunctionBlock._serialize_to then writes no ")").
\* ------------------------------------------------------------------------
CssSpace == {" ", "\n", "\t"}

NameStart == Letters \cup {"_"}

NameChars == Letters \cup Digits \cup {"_", "-"}

Tok(type, value, text, stype, sup) ==
    [type |-> type, value |-> value, text |-> text, stype |-> stype, sup |-> sup]

\* tokenizer._is_ident_start
IsIdentStart(css, pos) ==
    /\ pos <= Len(css)
    /\ \/ css[pos] \in NameStart
       \/ /\ css[pos] = "-"
          /\ pos + 1 <= Len(css)
          /\ css[pos + 1] \in NameStart \cup {"-"}

\* tokenizer._consume_ident: the index after the name
ConsumeIdent(css, pos) == SkipWhile(css, pos, NameChars)

\* _NUMBER_RE = [-+]?([0-9]*\.)?[0-9]+([eE][+-]?[0-9]+)? matched at pos:
\* the index after the mantissa, 0 when there is no match
MantissaEnd(css, pos) ==
    LET p  == IF pos <= Len(css) /\ css[pos] \in {"-", "+"} THEN pos + 1 ELSE pos
        d1 == SkipWhile(css, p, Digits)
    IN  IF d1 + 1 <= Len(css) /\ css[d1] = "." /\ css[d1 + 1] \in Digits
        THEN SkipWhile(css, d1 + 1, Digits)
        ELSE IF d1 > p THEN d1
        ELSE 0

\* the index after the exponent that starts at m, m when there is none
ExponentEnd(css, m) ==
    LET q == IF m + 1 <= Len(css) /\ css[m + 1] \in {"-", "+"} THEN m + 2 ELSE m + 1
    IN  IF m <= Len(css) /\ css[m] \in {"e", "E"} /\ q <= Len(css) /\ css[q] \in Digits
        THEN SkipWhile(css, q, Digits)
        ELSE m

NumberEnd(css, pos) ==
    IF MantissaEnd(css, pos) = 0 THEN 0 ELSE ExponentEnd(css, MantissaEnd(css, pos))

\* serializer.BAD_PAIRS: adjacent nodes that would re-tokenize differently
BadPair(a, b) ==
    \/ /\ a \in {"ident", "at-keyword", "hash", "dimension", "#", "-", "number"}
       /\ b \in {"ident", "function", "url", "number", "percentage",
                 "dimension", "unicode-range"}
    \/ /\ a \in {"ident", "at-keyword", "hash", "dimension"}
       /\ b \in {"-", "-->"}
    \/ /\ a \in {"#", "-", "number", "@"}
       /\ b \in {"ident", "function", "url"}
    \/ /\ a \in {"unicode-range", ".", "+"}
       /\ b \in {"number", "percentage", "dimension"}
    \/ <<a, b>> \in {<<"@", "ident">>, <<"@", "-">>, <<"@", "unicode-range">>,
                     <<"$", "=">>, <<"*", "=">>, <<"^", "=">>, <<"~", "=">>,
                     <<"|", "=">>, <<"|", "|">>, <<"/", "*">>}

\* what serializer._serialize_to writes for node i of nodes
NodeText(nodes, i) ==
    IF i > 1 /\ BadPair(nodes[i - 1].stype, nodes[i].stype)
    THEN <<"/", "*", "*", "/">> \o nodes[i].text
    ELSE nodes[i].text

RECURSIVE ConcatFrom(_, _)
\* "".join(texts[i:])
ConcatFrom(texts, i) ==
    IF i > Len(texts) THEN <<>> ELSE texts[i] \o ConcatFrom(texts, i + 1)

\* serializer._serialize_to(nodes)
SerializeNodes(nodes) ==
    ConcatFrom([i \in 1..Len(nodes) |-> NodeText(nodes, i)], 1)

Closer == [c \in {"[", "(", "{"} |->
              IF c = "[" THEN "]" ELSE IF c = "(" THEN ")" ELSE "}"]

\* SquareBracketsBlock / ParenthesesBlock / CurlyBracketsBlock
BlockToken(open, content) ==
    Tok(open \o Closer[open] \o " block", <<>>,
        <<open>> \o SerializeNodes(content) \o <<Closer[open]>>,
        open \o Closer[open] \o " block", FALSE)

\* FunctionBlock: no ")" is written when the arguments end in an
\* eof-in-string error, directly or through nested last functions
FunctionToken(name, arguments) ==
    Tok("function", name,
        name \o <<"(">> \o SerializeNodes(arguments)
             \o (IF arguments # <<>> /\ arguments[Len(arguments)].sup
                 THEN <<>> ELSE <<")">>),
        "function",
        arguments # <<>> /\ arguments[Len(arguments)].sup)

\* StringToken (representation always double-quoted, the closing quote
\* left out at end of input), followed by ParseError eof-in-string
StringTokens(value, closed) ==
    IF closed
    THEN << Tok("string", value, <<"\"">> \o value \o <<"\"">>, "string", FALSE) >>
    ELSE << Tok("string", value, <<"\"">> \o value, "string", FALSE),
            Tok("error", <<>>, <<>>, "error", TRUE) >>

\* One token that opens no block, read at pos: [toks, pos], pos the index
\* after it.  The branches are the tokenizer's, in its order.
NumberToken(css, pos) ==
    LET n == NumberEnd(css, pos)
    IN  IF IsIdentStart(css, n)
        THEN [toks |-> <<Tok("dimension", <<>>, Slice(css, pos, ConsumeIdent(css, n) - 1),
                             "dimension", FALSE)>>,
              pos |-> ConsumeIdent(css, n)]
        ELSE IF n <= Len(css) /\ css[n] = "%"
        THEN [toks |-> <<Tok("percentage", <<>>, Slice(css, pos, n), "percentage", FALSE)>>,
              pos |-> n + 1]
        ELSE [toks |-> <<Tok("number", <<>>, Slice(css, pos, n - 1), "number", FALSE)>>,
              pos |-> n]

NamedToken(css, pos, type, lit, ok) ==
    LET e == ConsumeIdent(css, pos + 1)
    IN  IF ok
        THEN [toks |-> <<Tok(type, Slice(css, pos + 1, e - 1), Slice(css, pos, e - 1),
                             type, FALSE)>>,
              pos |-> e]
        ELSE [toks |-> <<Tok("literal", <<>>, <<lit>>, lit, FALSE)>>, pos |-> pos + 1]

QuotedToken(css, pos) ==
    LET q == IndexOf(css, pos + 1, css[pos])
    IN  IF q = 0
        THEN [toks |-> StringTokens(Slice(css, pos + 1, Len(css)), FALSE),
              pos |-> Len(css) + 1]
        ELSE [toks |-> StringTokens(Slice(css, pos + 1, q - 1), TRUE), pos |-> q + 1]

CommentToken(css, pos) ==
    LET q == FindSeq(css, pos + 2, <<"*", "/">>)
    IN  IF q = 0
        THEN [toks |-> <<Tok("comment", <<>>, Slice(css, pos, Len(css)) \o <<"*", "/">>,
                             "comment", FALSE)>>,
              pos |-> Len(css) + 1]
        ELSE [toks |-> <<Tok("comment", <<>>, Slice(css, pos, q + 1), "comment", FALSE)>>,
              pos |-> q + 2]

Literal(text, stype, next) ==
    [toks |-> <<Tok("literal", <<>>, text, stype, FALSE)>>, pos |-> next]

SimpleToken(css, pos) ==
    IF css[pos] \in CssSpace THEN
        [toks |-> <<Tok("whitespace", <<>>,
                        Slice(css, pos, SkipWhile(css, pos, CssSpace) - 1),
                        "whitespace", FALSE)>>,
         pos |-> SkipWhile(css, pos, CssSpace)]
    ELSE IF StartsWithAt(css, pos, <<"-", "-", ">">>) THEN
        Literal(<<"-", "-", ">">>, "-->", pos + 3)
    ELSE IF IsIdentStart(css, pos) THEN
        [toks |-> <<Tok("ident", Slice(css, pos, ConsumeIdent(css, pos) - 1),
                        Slice(css, pos, ConsumeIdent(css, pos) - 1), "ident", FALSE)>>,
         pos |-> ConsumeIdent(css, pos)]
    ELSE IF NumberEnd(css, pos) > 0 THEN NumberToken(css, pos)
    ELSE IF css[pos] = "@" THEN
        NamedToken(css, pos, "at-keyword", "@", IsIdentStart(css, pos + 1))
    ELSE IF css[pos] = "#" THEN
        NamedToken(css, pos, "hash", "#",
                   pos + 1 <= Len(css) /\ css[pos + 1] \in NameChars)
    ELSE IF css[pos] \in {"}", "]", ")"} THEN
        [toks |-> <<Tok("error", <<>>, <<css[pos]>>, "error", FALSE)>>, pos |-> pos + 1]
    ELSE IF css[pos] \in {"\"", "'"} THEN QuotedToken(css, pos)
    ELSE IF StartsWithAt(css, pos, <<"/", "*">>) THEN CommentToken(css, pos)
    ELSE IF /\ css[pos] \in {"~", "|", "^", "$", "*"}
            /\ pos + 1 <= Len(css)
            /\ css[pos + 1] = "="
    THEN Literal(<<css[pos], "=">>, css[pos] \o "=", pos + 2)
    ELSE Literal(<<css[pos]>>, css[pos], pos + 1)

\* The tokenizer's state: the tokens of the innermost open block, the
\* character that closes it ("" at top level) and the stack of the blocks
\* around it, a frame holding the enclosing token list and end_char and
\* what was opened ("[", "(", "{" or a function's name).
StartState == [pos |-> 1, tokens |-> <<>>, end_char |-> "", stack |-> <<>>]

Push(st, open, name, next) ==
    [ pos |-> next, tokens |-> <<>>,
      end_char |-> IF open = "function" THEN ")" ELSE Closer[open],
      stack |-> Append(st.stack, [tokens |-> st.tokens, end_char |-> st.end_char,
                                  open |-> open, name |-> name]) ]

\* the innermost block ends (its closing character, or the end of input)
Pop(st, next) ==
    LET top == st.stack[Len(st.stack)]
    IN  [ pos |-> next,
          tokens |-> Append(top.tokens,
                            IF top.open = "function"
                            THEN FunctionToken(top.name, st.tokens)
                            ELSE BlockToken(top.open, st.tokens)),
          end_char |-> top.end_char,
          stack |-> SubSeq(st.stack, 1, Len(st.stack) - 1) ]

OpensFunction(css, pos) ==
    /\ css[pos] \notin CssSpace
    /\ ~StartsWithAt(css, pos, <<"-", "-", ">">>)
    /\ IsIdentStart(css, pos)
    /\ ConsumeIdent(css, pos) <= Len(css)
    /\ css[ConsumeIdent(css, pos)] = "("

\* one round of the tokenizer's while loop
Advance(css, st) ==
    IF st.pos > Len(css) THEN Pop(st, st.pos)
    ELSE IF OpensFunction(css, st.pos)
    THEN Push(st, "function", Slice(css, st.pos, ConsumeIdent(css, st.pos) - 1),
              ConsumeIdent(css, st.pos) + 1)
    ELSE IF css[st.pos] \in DOMAIN Closer THEN Push(st, css[st.pos], <<>>, st.pos + 1)
    ELSE IF css[st.pos] = st.end_char THEN Pop(st, st.pos + 1)
    ELSE [st EXCEPT !.pos = SimpleToken(css, st.pos).pos,
                    !.tokens = st.tokens \o SimpleToken(css, st.pos).toks]

RECURSIVE Tokenize(_, _)
Tokenize(css, st) ==
    IF st.pos > Len(css) /\ st.stack = <<>> THEN st.tokens
    ELSE Tokenize(css, Advance(css, st))

\* tinycss2.parse_component_value_list(css)
ParseComponentValueList(css) == Tokenize(css, StartState)

\* ------------------------------------------------------------------------
\* Python values and call outcomes
\* ------------------------------------------------------------------------
Str(s) == [py |-> "str", s |-> s, truthy |-> s # <<>>]

PyNone == [py |-> "NoneType", s |-> <<>>, truthy |-> FALSE]

PyZero == [py |-> "int", s |-> <<>>, truthy |-> FALSE]

PyInt == [py |-> "int", s |-> <<>>, truthy |-> TRUE]

PyList == [py |-> "list", s |-> <<>>, truthy |-> TRUE]

Returned(v) == [exc |-> "none", msg |-> "", val |-> v]

Raised(e, m) == [exc |-> e, msg |-> m, val |-> <<>>]

\* ------------------------------------------------------------------------
\* utils.py: normalize_selector
\* ------------------------------------------------------------------------
WordLikeLeft == {"ident", "hash", "dimension", "number", "string", "]"}

WordLikeRight == {"ident", "hash", "dimension", "number", "string", "["}

_needs_descendant_space(prev_token, current_token) ==
    /\ prev_token.type \in WordLikeLeft
    /\ current_token.type \in WordLikeRight

\* what _normalize_css appends to result_parts for one non-whitespace token
RenderToken(token) ==
    IF token.type = "hash" THEN <<"#">> \o token.value
    ELSE IF token.type \in {"string", "ident", "dimension", "number"} THEN token.value
    ELSE token.text

\* what the loop of _normalize_css appends for the i-th non-whitespace
\* token; prev_token is the non-whitespace token before it, if any
RenderStep(words, i) ==
    IF i > 1 /\ _needs_descendant_space(words[i - 1], words[i])
    THEN <<" ">> \o RenderToken(words[i])
    ELSE RenderToken(words[i])

\* "".join(result_parts) for a token list without float values
JoinParts(tokens) ==
    LET words == SelectSeq(tokens, LAMBDA t : t.type # "whitespace")
    IN  ConcatFrom([i \in 1..Len(words) |-> RenderStep(words, i)], 1)

\* token.value of a dimension or number token is a float, which
\* "".join(result_parts) rejects
JoinRaises(tokens) ==
    \E i \in 1..Len(tokens) : tokens[i].type \in {"dimension", "number"}

CleanupSpaces(joined) ==
    Strip(RemoveSpaceAround(
            RemoveSpaceAround(
              RemoveSpaceAround(
                RemoveSpaceAround(joined, {"["}),
                {"]"}),
              {"="}),
            {">", "+", "~", ","}))

NormalizeTokens(tokens) ==
    IF JoinRaises(tokens) THEN Raised("TypeError", "")
    ELSE Returned(CleanupSpaces(JoinParts(tokens)))

_normalize_css(css_selector) == NormalizeTokens(ParseComponentValueList(css_selector))

StripAll(parts) == [k \in 1..Len(parts) |-> Strip(parts[k])]

RejoinPredicates(parts) ==
    IF Len(parts) > 1
    THEN Strip(parts[1]) \o <<"[">> \o JoinWith(StripAll(Tail(parts)), <<"]", "[">>)
    ELSE Strip(parts[1])

_normalize_xpath(xpath_selector) == RejoinPredicates(SplitOn(xpath_selector, "["))

NormalizeCollapsed(collapsed) ==
    IF StartsWith(collapsed, <<"/">>)
    THEN Returned(_normalize_xpath(collapsed))
    ELSE _normalize_css(collapsed)

normalize_selector(selector) ==
    IF ~selector.truthy THEN Returned(<<>>)
    ELSE IF selector.py # "str" THEN Raised("AttributeError", "")
    ELSE NormalizeCollapsed(CollapseWhitespace(selector.s))

\* ------------------------------------------------------------------------
\* utils.py: extract_selector_parts, get_selector_specificity
\* ------------------------------------------------------------------------
Indices(s) == [k \in 1..Len(s) |-> k]

\* re.findall(r'C([\w-]+)', s), C the character c: a match starts at every
\* c that a word character follows (c is no word character itself, so no
\* match starts inside another)
PrefixedStarts(s, c) ==
    SelectSeq(Indices(s), LAMBDA p : /\ s[p] = c
                                     /\ p < Len(s)
                                     /\ s[p + 1] \in WordHyphen)

FindAllAfter(s, c) ==
    [i \in 1..Len(PrefixedStarts(s, c)) |->
        Slice(s, PrefixedStarts(s, c)[i] + 1,
              SkipWhile(s, PrefixedStarts(s, c)[i] + 1, WordHyphen) - 1)]

\* the index after a match of \[([\w-]+(?:[~|^$*]?=[\w-]+)?)\] at pos, else 0
AttributeValueEnd(s, n) ==
    LET o == IF s[n] \in {"~", "|", "^", "$", "*"} THEN n + 1 ELSE n
        v == SkipWhile(s, o + 1, WordHyphen)
    IN  IF o <= Len(s) /\ s[o] = "=" /\ v > o + 1 /\ v <= Len(s) /\ s[v] = "]"
        THEN v + 1
        ELSE 0

AttributeEnd(s, pos) ==
    LET n == SkipWhile(s, pos + 1, WordHyphen)
    IN  IF s[pos] # "[" \/ n = pos + 1 \/ n > Len(s) THEN 0
        ELSE IF s[n] = "]" THEN n + 1
        ELSE AttributeValueEnd(s, n)

\* a predicate holds no "[", so no match starts inside another
AttributeStarts(s) == SelectSeq(Indices(s), LAMBDA p : AttributeEnd(s, p) > 0)

FindAllAttributes(s) ==
    [i \in 1..Len(AttributeStarts(s)) |->
        Slice(s, AttributeStarts(s)[i] + 1, AttributeEnd(s, AttributeStarts(s)[i]) - 2)]

\* the index after a match of :([\w-]+)(?:\([^)]*\))? at pos, else 0
PseudoEnd(s, pos) ==
    LET e == SkipWhile(s, pos + 1, WordHyphen)
    IN  IF s[pos] # ":" \/ e = pos + 1 THEN 0
        ELSE IF e <= Len(s) /\ s[e] = "(" /\ IndexOf(s, e + 1, ")") > 0
        THEN IndexOf(s, e + 1, ")") + 1
        ELSE e

RECURSIVE FindAllPseudo(_, _)
\* re.findall(r':([\w-]+)(?:\([^)]*\))?', s) from index pos on
FindAllPseudo(s, pos) ==
    IF pos > Len(s) THEN <<>>
    ELSE (IF PseudoEnd(s, pos) > 0
          THEN <<Slice(s, pos + 1, SkipWhile(s, pos + 1, WordHyphen) - 1)>>
          ELSE <<>>)
         \o FindAllPseudo(s, IF PseudoEnd(s, pos) > 0 THEN PseudoEnd(s, pos) ELSE pos + 1)

extract_selector_parts(selector) ==
    [ tag        |-> Slice(selector, 1, SkipWhile(selector, 1, WordHyphen) - 1),
      id         |-> IF FindAllAfter(selector, "#") = <<>> THEN <<>>
                     ELSE FindAllAfter(selector, "#")[1],
      classes    |-> FindAllAfter(selector, "."),
      attributes |-> FindAllAttributes(selector),
      pseudo     |-> FindAllPseudo(selector, 1) ]

\* SpecificityOf that counts the extracted id, one at most
SpecificityOf_single_id(selector, parts) ==
    << IF parts.id # <<>> THEN 1 ELSE 0,
       Len(parts.classes) + Len(parts.attributes) + Len(parts.pseudo),
       IF parts.tag # <<>> THEN 1 ELSE 0 >>

SpecificityOf(selector, parts) ==
    << Len(FindAllAfter(selector, "#")),
       Len(parts.classes) + Len(parts.attributes) + Len(parts.pseudo),
       IF parts.tag # <<>> THEN 1 ELSE 0 >>

get_selector_specificity(selector) ==
    SpecificityOf(selector, extract_selector_parts(selector))

\* ------------------------------------------------------------------------
\* validators.py: SelectorValidator
\* ------------------------------------------------------------------------
AlphaLower == <<"a","b","c","d","e","f","g","h","i","j","k","l","m","n","o","p","q","r","s","t","u","v","w","x","y","z">>

AlphaUpper == <<"A","B","C","D","E","F","G","H","I","J","K","L","M","N","O","P","Q","R","S","T","U","V","W","X","Y","Z">>

\* str.lower()
LowerStr(s) ==
    [k \in 1..Len(s) |->
        IF s[k] \in Upper
        THEN AlphaLower[CHOOSE j \in 1..Len(AlphaUpper) : AlphaUpper[j] = s[k]]
        ELSE s[k]]

HTML_TAGS == {
    <<"d","i","v">>,
    <<"s","p","a","n">>,
    <<"p">>,
    <<"a">>,
    <<"h","1">>,
    <<"h","2">>,
    <<"h","3">>,
    <<"h","4">>,
    <<"h","5">>,
    <<"h","6">>,
    <<"a","r","t","i","c","l","e">>,
    <<"s","e","c","t","i","o","n">>,
    <<"n","a","v">>,
    <<"h","e","a","d","e","r">>,
    <<"f","o","o","t","e","r">>,
    <<"m","a","i","n">>,
    <<"a","s","i","d","e">>,
    <<"t","i","m","e">>,
    <<"f","i","g","u","r","e">>,
    <<"f","i","g","c","a","p","t","i","o","n">>,
    <<"i","m","g">>,
    <<"u","l">>,
    <<"o","l">>,
    <<"l","i">>,
    <<"t","a","b","l","e">>,
    <<"t","r">>,
    <<"t","d">>,
    <<"t","h">>,
    <<"t","h","e","a","d">>,
    <<"t","b","o","d","y">>,
    <<"f","o","r","m">>,
    <<"i","n","p","u","t">>,
    <<"b","u","t","t","o","n">>,
    <<"t","e","x","t","a","r","e","a">> }

Contains(s, c) == \E k \in 1..Len(s) : s[k] = c

SelectorInfo(raw, type, processed, specificity) ==
    [ raw_selector       |-> raw,
      selector_type      |-> type,
      processed_selector |-> processed,
      is_valid           |-> TRUE,
      validation_message |-> "",
      specificity        |-> specificity ]

\* The two grammar checks are external libraries.  A call consults at most
\* one of them, and grammar_ok is that check's verdict, chosen by the
\* environment, except that cssselect.parse always rejects the empty string.
CssSelectAccepts(selector, grammar_ok) == selector # <<>> /\ grammar_ok

XPathAccepts(selector, grammar_ok) == grammar_ok

\* ClassifyParts that answers an empty normalized text with a record of
\* kind empty instead of handing it to the CSS grammar
ClassifyParts_empty_record(selector, parts, grammar_ok) ==
    IF selector = <<>>
    THEN Returned(SelectorInfo(selector, "empty", selector, <<0, 0, 0>>))
    ELSE
    IF StartsWith(selector, <<"/", "/">>) \/ StartsWith(selector, <<"(", "/", "/">>)
    THEN IF XPathAccepts(selector, grammar_ok)
         THEN Returned(SelectorInfo(selector, "xpath", selector, <<0, 0, 0>>))
         ELSE Raised("InvalidSelectorError", "Invalid XPath expression: ")
    ELSE IF /\ LowerStr(selector) \in HTML_TAGS
            /\ ~Contains(selector, ".")
            /\ ~Contains(selector, "#")
    THEN Returned(SelectorInfo(selector, "tag name", LowerStr(selector), <<0, 0, 1>>))
    ELSE IF /\ parts.id # <<>>
            /\ parts.classes = <<>>
            /\ parts.attributes = <<>>
            /\ parts.tag = <<>>
    THEN Returned(SelectorInfo(selector, "id", <<"#">> \o parts.id, <<1, 0, 0>>))
    ELSE IF /\ parts.classes # <<>>
            /\ parts.id = <<>>
            /\ parts.attributes = <<>>
            /\ parts.tag = <<>>
    THEN Returned(SelectorInfo(selector, "class name",
                               <<".">> \o parts.classes[1], <<0, 1, 0>>))
    ELSE IF CssSelectAccepts(selector, grammar_ok)
    THEN Returned(SelectorInfo(selector, "css selector", selector,
                               SpecificityOf(selector, parts)))
    ELSE Raised("InvalidSelectorError", "Invalid CSS selector: ")

\* ClassifyParts that lets a selector the XPath check rejected fall through
\* to the later rules
ClassifyParts_xpath_falls_through(selector, parts, grammar_ok) ==
    IF /\ StartsWith(selector, <<"/", "/">>) \/ StartsWith(selector, <<"(", "/", "/">>)
       /\ XPathAccepts(selector, grammar_ok)
    THEN Returned(SelectorInfo(selector, "xpath", selector, <<0, 0, 0>>))
    ELSE IF /\ LowerStr(selector) \in HTML_TAGS
            /\ ~Contains(selector, ".")
            /\ ~Contains(selector, "#")
    THEN Returned(SelectorInfo(selector, "tag name", LowerStr(selector), <<0, 0, 1>>))
    ELSE IF /\ parts.id # <<>>
            /\ parts.classes = <<>>
            /\ parts.attributes = <<>>
            /\ parts.tag = <<>>
    THEN Returned(SelectorInfo(selector, "id", <<"#">> \o parts.id, <<1, 0, 0>>))
    ELSE IF /\ parts.classes # <<>>
            /\ parts.id = <<>>
            /\ parts.attributes = <<>>
            /\ parts.tag = <<>>
    THEN Returned(SelectorInfo(selector, "class name",
                               <<".">> \o parts.classes[1], <<0, 1, 0>>))
    ELSE IF CssSelectAccepts(selector, grammar_ok)
    THEN Returned(SelectorInfo(selector, "css selector", selector,
                               SpecificityOf(selector, parts)))
    ELSE Raised("InvalidSelectorError", "Invalid CSS selector: ")

\* ClassifyParts whose tag rule looks at the leading tag of the selector
\* instead of the whole selector
ClassifyParts_leading_tag(selector, parts, grammar_ok) ==
    IF StartsWith(selector, <<"/", "/">>) \/ StartsWith(selector, <<"(", "/", "/">>)
    THEN IF XPathAccepts(selector, grammar_ok)
         THEN Returned(SelectorInfo(selector, "xpath", selector, <<0, 0, 0>>))
         ELSE Raised("InvalidSelectorError", "Invalid XPath expression: ")
    ELSE IF LowerStr(parts.tag) \in HTML_TAGS
    THEN Returned(SelectorInfo(selector, "tag name", LowerStr(parts.tag), <<0, 0, 1>>))
    ELSE IF /\ parts.id # <<>>
            /\ parts.classes = <<>>
            /\ parts.attributes = <<>>
            /\ parts.tag = <<>>
    THEN Returned(SelectorInfo(selector, "id", <<"#">> \o parts.id, <<1, 0, 0>>))
    ELSE IF /\ parts.classes # <<>>
            /\ parts.id = <<>>
            /\ parts.attributes = <<>>
            /\ parts.tag = <<>>
    THEN Returned(SelectorInfo(selector, "class name",
                               <<".">> \o parts.classes[1], <<0, 1, 0>>))
    ELSE IF CssSelectAccepts(selector, grammar_ok)
    THEN Returned(SelectorInfo(selector, "css selector", selector,
                               SpecificityOf(selector, parts)))
    ELSE Raised("InvalidSelectorError", "Invalid CSS selector: ")

\* ClassifyParts whose id rule also asks the CSS grammar check
ClassifyParts_id_needs_css(selector, parts, grammar_ok) ==
    IF StartsWith(selector, <<"/", "/">>) \/ StartsWith(selector, <<"(", "/", "/">>)
    THEN IF XPathAccepts(selector, grammar_ok)
         THEN Returned(SelectorInfo(selector, "xpath", selector, <<0, 0, 0>>))
         ELSE Raised("InvalidSelectorError", "Invalid XPath expression: ")
    ELSE IF /\ LowerStr(selector) \in HTML_TAGS
            /\ ~Contains(selector, ".")
            /\ ~Contains(selector, "#")
    THEN Returned(SelectorInfo(selector, "tag name", LowerStr(selector), <<0, 0, 1>>))
    ELSE IF /\ parts.id # <<>>
            /\ parts.classes = <<>>
            /\ parts.attributes = <<>>
            /\ parts.tag = <<>>
            /\ CssSelectAccepts(selector, grammar_ok)
    THEN Returned(SelectorInfo(selector, "id", <<"#">> \o parts.id, <<1, 0, 0>>))
    ELSE IF /\ parts.classes # <<>>
            /\ parts.id = <<>>
            /\ parts.attributes = <<>>
            /\ parts.tag = <<>>
    THEN Returned(SelectorInfo(selector, "class name",
                               <<".">> \o parts.classes[1], <<0, 1, 0>>))
    ELSE IF CssSelectAccepts(selector, grammar_ok)
    THEN Returned(SelectorInfo(selector, "css selector", selector,
                               SpecificityOf(selector, parts)))
    ELSE Raised("InvalidSelectorError", "Invalid CSS selector: ")

\* ClassifyParts whose class rule keeps the last class instead of the first
ClassifyParts_last_class(selector, parts, grammar_ok) ==
    IF StartsWith(selector, <<"/", "/">>) \/ StartsWith(selector, <<"(", "/", "/">>)
    THEN IF XPathAccepts(selector, grammar_ok)
         THEN Returned(SelectorInfo(selector, "xpath", selector, <<0, 0, 0>>))
         ELSE Raised("InvalidSelectorError", "Invalid XPath expression: ")
    ELSE IF /\ LowerStr(selector) \in HTML_TAGS
            /\ ~Contains(selector, ".")
            /\ ~Contains(selector, "#")
    THEN Returned(SelectorInfo(selector, "tag name", LowerStr(selector), <<0, 0, 1>>))
    ELSE IF /\ parts.id # <<>>
            /\ parts.classes = <<>>
            /\ parts.attributes = <<>>
            /\ parts.tag = <<>>
    THEN Returned(SelectorInfo(selector, "id", <<"#">> \o parts.id, <<1, 0, 0>>))
    ELSE IF /\ parts.classes # <<>>
            /\ parts.id = <<>>
            /\ parts.attributes = <<>>
            /\ parts.tag = <<>>
    THEN Returned(SelectorInfo(selector, "class name",
                               <<".">> \o parts.classes[Len(parts.classes)], <<0, 1, 0>>))
    ELSE IF CssSelectAccepts(selector, grammar_ok)
    THEN Returned(SelectorInfo(selector, "css selector", selector,
                               SpecificityOf(selector, parts)))
    ELSE Raised("InvalidSelectorError", "Invalid CSS selector: ")

\* ClassifyParts whose XPath test takes every selector that starts with /,
\* as normalize_selector does
ClassifyParts_single_slash(selector, parts, grammar_ok) ==
    IF StartsWith(selector, <<"/">>) \/ StartsWith(selector, <<"(", "/", "/">>)
    THEN IF XPathAccepts(selector, grammar_ok)
         THEN Returned(SelectorInfo(selector, "xpath", selector, <<0, 0, 0>>))
         ELSE Raised("InvalidSelectorError", "Invalid XPath expression: ")
    ELSE IF /\ LowerStr(selector) \in HTML_TAGS
            /\ ~Contains(selector, ".")
            /\ ~Contains(selector, "#")
    THEN Returned(SelectorInfo(selector, "tag name", LowerStr(selector), <<0, 0, 1>>))
    ELSE IF /\ parts.id # <<>>
            /\ parts.classes = <<>>
            /\ parts.attributes = <<>>
            /\ parts.tag = <<>>
    THEN Returned(SelectorInfo(selector, "id", <<"#">> \o parts.id, <<1, 0, 0>>))
    ELSE IF /\ parts.classes # <<>>
            /\ parts.id = <<>>
            /\ parts.attributes = <<>>
            /\ parts.tag = <<>>
    THEN Returned(SelectorInfo(selector, "class name",
                               <<".">> \o parts.classes[1], <<0, 1, 0>>))
    ELSE IF CssSelectAccepts(selector, grammar_ok)
    THEN Returned(SelectorInfo(selector, "css selector", selector,
                               SpecificityOf(selector, parts)))
    ELSE Raised("InvalidSelectorError", "Invalid CSS selector: ")

\* ClassifyParts whose id rule also wants no pseudo-class
ClassifyParts_id_without_pseudo(selector, parts, grammar_ok) ==
    IF StartsWith(selector, <<"/", "/">>) \/ StartsWith(selector, <<"(", "/", "/">>)
    THEN IF XPathAccepts(selector, grammar_ok)
         THEN Returned(SelectorInfo(selector, "xpath", selector, <<0, 0, 0>>))
         ELSE Raised("InvalidSelectorError", "Invalid XPath expression: ")
    ELSE IF /\ LowerStr(selector) \in HTML_TAGS
            /\ ~Contains(selector, ".")
            /\ ~Contains(selector, "#")
    THEN Returned(SelectorInfo(selector, "tag name", LowerStr(selector), <<0, 0, 1>>))
    ELSE IF /\ parts.id # <<>>
            /\ parts.classes = <<>>
            /\ parts.attributes = <<>>
            /\ parts.pseudo = <<>>
            /\ parts.tag = <<>>
    THEN Returned(SelectorInfo(selector, "id", <<"#">> \o parts.id, <<1, 0, 0>>))
    ELSE IF /\ parts.classes # <<>>
            /\ parts.id = <<>>
            /\ parts.attributes = <<>>
            /\ parts.tag = <<>>
    THEN Returned(SelectorInfo(selector, "class name",
                               <<".">> \o parts.classes[1], <<0, 1, 0>>))
    ELSE IF CssSelectAccepts(selector, grammar_ok)
    THEN Returned(SelectorInfo(selector, "css selector", selector,
                               SpecificityOf(selector, parts)))
    ELSE Raised("InvalidSelectorError", "Invalid CSS selector: ")

\* determine_selector_type from the XPath test on: selector is the
\* normalized text, parts its extracted parts
ClassifyParts(selector, parts, grammar_ok) ==
    IF StartsWith(selector, <<"/", "/">>) \/ StartsWith(selector, <<"(", "/", "/">>)
    THEN IF XPathAccepts(selector, grammar_ok)
         THEN Returned(SelectorInfo(selector, "xpath", selector, <<0, 0, 0>>))
         ELSE Raised("InvalidSelectorError", "Invalid XPath expression: ")
    ELSE IF /\ LowerStr(selector) \in HTML_TAGS
            /\ ~Contains(selector, ".")
            /\ ~Contains(selector, "#")
    THEN Returned(SelectorInfo(selector, "tag name", LowerStr(selector), <<0, 0, 1>>))
    ELSE IF /\ parts.id # <<>>
            /\ parts.classes = <<>>
            /\ parts.attributes = <<>>
            /\ parts.tag = <<>>
    THEN Returned(SelectorInfo(selector, "id", <<"#">> \o parts.id, <<1, 0, 0>>))
    ELSE IF /\ parts.classes # <<>>
            /\ parts.id = <<>>
            /\ parts.attributes = <<>>
            /\ parts.tag = <<>>
    THEN Returned(SelectorInfo(selector, "class name",
                               <<".">> \o parts.classes[1], <<0, 1, 0>>))
    ELSE IF CssSelectAccepts(selector, grammar_ok)
    THEN Returned(SelectorInfo(selector, "css selector", selector,
                               SpecificityOf(selector, parts)))
    ELSE Raised("InvalidSelectorError", "Invalid CSS selector: ")

\* determine_selector_type after its first check: normalized is the outcome
\* of normalize_selector(selector), whose exception, if any, propagates
ClassifyOutcome(normalized, grammar_ok) ==
    IF normalized.exc # "none" THEN normalized
    ELSE ClassifyParts(normalized.val, extract_selector_parts(normalized.val), grammar_ok)

\* determine_selector_type that normalizes before it checks its argument
determine_selector_type_normalizes_first(selector, grammar_ok) ==
    IF normalize_selector(selector).exc # "none" THEN normalize_selector(selector)
    ELSE IF ~selector.truthy \/ selector.py # "str"
    THEN Raised("InvalidSelectorError", "Empty or invalid selector type")
    ELSE ClassifyOutcome(normalize_selector(selector), grammar_ok)

determine_selector_type(selector, grammar_ok) ==
    IF ~selector.truthy \/ selector.py # "str"
    THEN Raised("InvalidSelectorError", "Empty or invalid selector type")
    ELSE ClassifyOutcome(normalize_selector(selector), grammar_ok)

\* result["processed_selectors"][field] = rec; the fields of a mapping are
\* distinct keys, kept in item order
Store(result, rec) ==
    [ processed_selectors |-> Append(result.processed_selectors, rec),
      all_valid |-> result.all_valid ]

\* result["all_valid"] = False
Invalidate(result) == [result EXCEPT !.all_valid = FALSE]

EmptyRecord(field) ==
    [ field |-> field, type |-> "empty", processed |-> <<>>, is_valid |-> TRUE,
      message |-> "Empty selector", specificity |-> <<0, 0, 0>> ]

\* InfoRecord that stores the kind of the selector as its message
InfoRecord_kind_as_message(field, selector_info) ==
    [ field |-> field,
      type |-> selector_info.selector_type,
      processed |-> selector_info.processed_selector,
      is_valid |-> selector_info.is_valid,
      message |-> selector_info.selector_type,
      specificity |-> selector_info.specificity ]

InfoRecord(field, selector_info) ==
    [ field |-> field,
      type |-> selector_info.selector_type,
      processed |-> selector_info.processed_selector,
      is_valid |-> selector_info.is_valid,
      message |-> selector_info.validation_message,
      specificity |-> selector_info.specificity ]

\* InvalidRecord that drops the text of the exception
InvalidRecord_no_message(field, normalized_selector, message) ==
    [ field |-> field, type |-> "invalid", processed |-> normalized_selector,
      is_valid |-> FALSE, message |-> "", specificity |-> <<0, 0, 0>> ]

InvalidRecord(field, normalized_selector, message) ==
    [ field |-> field, type |-> "invalid", processed |-> normalized_selector,
      is_valid |-> FALSE, message |-> message, specificity |-> <<0, 0, 0>> ]

\* RecordOutcome whose except branch stores the invalid record but leaves
\* all_valid as it was
RecordOutcome_keeps_all_valid(result, field, normalized_selector, outcome) ==
    IF outcome.exc = "none"
    THEN [exc |-> "none",
          result |-> IF outcome.val.is_valid
                     THEN Store(result, InfoRecord(field, outcome.val))
                     ELSE Invalidate(Store(result, InfoRecord(field, outcome.val)))]
    ELSE IF outcome.exc = "InvalidSelectorError"
    THEN [exc |-> "none",
          result |-> Store(result, InvalidRecord(field, normalized_selector, outcome.msg))]
    ELSE [exc |-> outcome.exc, result |-> result]

\* the try / except of process_selectors' loop body: outcome is that of
\* determine_selector_type(normalized_selector)
RecordOutcome(result, field, normalized_selector, outcome) ==
    IF outcome.exc = "none"
    THEN [exc |-> "none",
          result |-> IF outcome.val.is_valid
                     THEN Store(result, InfoRecord(field, outcome.val))
                     ELSE Invalidate(Store(result, InfoRecord(field, outcome.val)))]
    ELSE IF outcome.exc = "InvalidSelectorError"
    THEN [exc |-> "none",
          result |-> Invalidate(Store(result,
                         InvalidRecord(field, normalized_selector, outcome.msg)))]
    ELSE [exc |-> outcome.exc, result |-> result]

\* process_selectors' loop body after normalize_selector(selector) gave
\* normalized
RecordNormalized(result, field, normalized, grammar_ok) ==
    IF normalized.exc # "none" THEN [exc |-> normalized.exc, result |-> result]
    ELSE IF normalized.val = <<>>
    THEN [exc |-> "none", result |-> Store(result, EmptyRecord(field))]
    ELSE RecordOutcome(result, field, normalized.val,
                       determine_selector_type(Str(normalized.val), grammar_ok))

\* process_selectors: the body of the loop for one (field, selector) item.
\* [exc, result]: exc is "none" when the iteration ended normally, otherwise
\* the exception that leaves process_selectors.
ProcessField(result, field, selector, grammar_ok) ==
    RecordNormalized(result, field, normalize_selector(selector), grammar_ok)

\* ------------------------------------------------------------------------
\* Inputs
\* ------------------------------------------------------------------------
\* longest selector text enumerated exhaustively
MaxLen == 3

\* most fields in a mapping handed to process_selectors
MaxFields == 3

\* characters of the exhaustively enumerated selector texts
Chars == {" ", "a", "1", "#", ".", "[", "]", "/", "\"", ">", ":", "="}

Texts == UNION {[1..n -> Chars] : n \in 0..MaxLen}

\* selector texts of the tests and of the documentation's examples
S_test_css == <<"d","i","v",".","c","l","a","s","s","-","n","a","m","e"," ","["," ","d","a","t","a","-","t","e","s","t"," ","="," ","v","a","l","u","e"," ","]"," ",">"," ","s","p","a","n">>

S_test_child == <<" ","d","i","v"," "," ",">"," "," ","s","p","a","n"," ">>

S_test_attr == <<"d","i","v","[","a","t","t","r"," ","="," ","v","a","l","u","e","]">>

S_h1_title == <<"h","1",".","t","i","t","l","e">>

S_invalid == <<"[","i","n","v","a","l","i","d","[">>

S_xpath_author == <<"/","/","d","i","v","[","@","c","l","a","s","s","=","'","a","u","t","h","o","r","'","]">>

S_xpath_two == <<"/","/","d","i","v","[","@","i","d","=","'","m","a","i","n","'","]","[","@","c","l","a","s","s","=","'","a","u","t","h","o","r","'","]">>

S_xpath_bad == <<"/","/","[","i","n","v","a","l","i","d">>

S_div_content == <<"d","i","v","#","c","o","n","t","e","n","t">>

S_div_id == <<"d","i","v","#","i","d">>

S_date == <<"#","d","a","t","e">>

S_author == <<".","a","u","t","h","o","r">>

S_div == <<"d","i","v">>

S_div_x == <<"d","i","v",".","x">>

S_specificity == <<"d","i","v","#","i","d",".","c","l","a","s","s","[","a","t","t","r","]",":","h","o","v","e","r">>

S_quoted == <<"i","n","p","u","t","[","v","a","l","u","e","=","\"","x","\"","]">>

S_quoted_single == <<"[","v","a","l","u","e","=","'","x","'","]">>

S_desc_ident == <<"d","i","v"," ","s","p","a","n">>

S_desc_id == <<"d","i","v"," ","#","m","a","i","n">>

S_desc_class == <<"d","i","v"," ",".","t","i","t","l","e">>

S_desc_pseudo == <<"d","i","v"," ",":","h","o","v","e","r">>

S_desc_attr == <<"d","i","v"," ","[","a","t","t","r","]">>

S_digit_class == <<"d","i","v",".","3","c","o","l">>

S_blank == <<" "," "," ">>

S_xpath_group == <<"(","/","/","d","i","v",")","[","1","]">>

S_div_upper == <<"D","I","V">>

S_two_classes == <<".","i","n","t","r","o",".","l","e","a","d">>

S_repeated_id == <<"#","x","#","x">>

S_nth_spaced == <<"l","i",":","n","t","h","-","c","h","i","l","d","(","2","n"," ","+"," ","1",")">>

S_xpath_bracket == <<"/","/","a","[","@","b","=","'","[","'","]">>

S_id_class == <<"#","m","a","i","n"," ",".","i","n","t","r","o">>

S_id_hover == <<"#","a",":","h","o","v","e","r">>

S_id_child == <<"#","a",">","s","p","a","n">>

S_class_desc == <<".","a"," ","s","p","a","n">>

Samples == {S_class_desc,
            S_id_child,
            S_id_hover,
            S_id_class,
            S_xpath_bracket,
            S_nth_spaced,
            S_repeated_id,
            S_two_classes,
            S_div_upper,
            S_xpath_group,
            S_test_css,
            S_test_child,
            S_test_attr,
            S_h1_title,
            S_invalid,
            S_xpath_author,
            S_xpath_two,
            S_xpath_bad,
            S_div_content,
            S_div_id,
            S_date,
            S_author,
            S_div,
            S_div_x,
            S_specificity,
            S_quoted,
            S_quoted_single,
            S_desc_ident,
            S_desc_id,
            S_desc_class,
            S_desc_pseudo,
            S_desc_attr,
            S_digit_class,
            S_blank}

NonStrings == {PyNone, PyZero, PyInt, PyList}

\* string arguments
StringInputs == {Str(s) : s \in Texts \cup Samples}

\* arguments of the single-selector entry points
Inputs == {Str(s) : s \in Texts \cup Samples} \cup NonStrings

\* values of the fields of a mapping handed to process_selectors
FieldValues ==
    {Str(s) : s \in {<<>>, S_blank, S_h1_title, S_invalid, S_div, S_date,
                     S_digit_class, S_xpath_bracket}}
    \cup {PyNone, PyInt}

Mappings == UNION {[1..n -> FieldValues] : n \in 0..MaxFields}

\* ------------------------------------------------------------------------
\* utils.py: merge_selector_results
\* ------------------------------------------------------------------------
\* A dictionary is a function from its keys; the empty dictionary is <<>>.
\* A result dictionary holds, under "processed_selectors" and
\* "html_validation", the object that is the nested dictionary: heap gives
\* the contents of each object.
NestedKeys == {"processed_selectors", "html_validation"}

ResultKeys == NestedKeys \cup {"all_valid"}

MergeFields == {"title", "content"}

\* the objects: the nested dictionaries of base_results and of new_results,
\* and the two that merge_selector_results may create
Addresses == {"base.processed_selectors", "base.html_validation",
              "new.processed_selectors", "new.html_validation",
              "{}.processed_selectors", "{}.html_validation"}

EmptyHeap == [a \in Addresses |-> <<>>]

\* d[k] = v
SetItem(d, k, v) == [x \in DOMAIN d \cup {k} |-> IF x = k THEN v ELSE d[x]]

\* d.update(other)
Update(d, other) ==
    [k \in DOMAIN d \cup DOMAIN other |-> IF k \in DOMAIN other THEN other[k] ELSE d[k]]

\* base_results.copy(): a new dictionary with the same keys that holds the
\* same objects
ShallowCopy(d) == d

\* if key not in merged: merged[key] = {}
WithNested(state, key) ==
    IF key \in DOMAIN state.merged
    THEN state
    ELSE [merged |-> SetItem(state.merged, key, "{}." \o key),
          heap |-> [state.heap EXCEPT !["{}." \o key] = <<>>]]

\* merged[key].update(new[key])
UpdateNested(state, key, new) ==
    [merged |-> state.merged,
     heap |-> [state.heap EXCEPT ![state.merged[key]] =
                   Update(state.heap[state.merged[key]], state.heap[new[key]])]]

\* if key in new_results: ... merged[key].update(new_results[key])
MergeNested(state, key, new) ==
    IF key \in DOMAIN new
    THEN UpdateNested(WithNested(state, key), key, new)
    ELSE state

\* merged.get("all_valid", True)
GetAllValid(d) == IF "all_valid" \in DOMAIN d THEN d["all_valid"] ELSE TRUE

\* if "all_valid" in new_results: merged["all_valid"] = ... and ...
MergeAllValid(state, new) ==
    IF "all_valid" \in DOMAIN new
    THEN [merged |-> SetItem(state.merged, "all_valid",
                             GetAllValid(state.merged) /\ new["all_valid"]),
          heap |-> state.heap]
    ELSE state

\* the returned dictionary and the objects after the call
merge_selector_results(base, new, objects) ==
    MergeAllValid(
        MergeNested(
            MergeNested([merged |-> ShallowCopy(base), heap |-> objects],
                        "processed_selectors", new),
            "html_validation", new),
        new)

\* the result dictionaries a caller can hold: any of the three keys present
ResultDicts(owner) ==
    {[k \in K |-> IF k = "all_valid" THEN av ELSE owner \o "." \o k] :
        K \in SUBSET ResultKeys, av \in BOOLEAN}

\* nested dictionaries over the fields, every field with the value v
NestedDicts(v) == {[f \in F |-> v] : F \in SUBSET MergeFields}

\* the contents of d's nested dictionary under key, <<>> when d has none
NestedChoices(d, key, v) == IF key \in DOMAIN d THEN NestedDicts(v) ELSE {<<>>}

\* ------------------------------------------------------------------------
\* parser.py: parse_json_string
\* ------------------------------------------------------------------------
\* the fields of ArticleSelectors, in declaration order
ArticleSelectors ==
    <<"url", "title_selector", "author_selector", "date_selector", "content_selector">>

\* the values a key of the JSON object can have
JsonValues == {Str(S_h1_title), Str(S_xpath_author), Str(S_date), PyInt}

\* the JSON objects with selector keys only
SelectorObjects ==
    UNION {[K -> JsonValues] : K \in SUBSET {ArticleSelectors[i] : i \in 2..5}}

\* the JSON objects: any of the selector keys with a value, "url" empty or absent
JsonObjects ==
    SelectorObjects \cup {SetItem(d, "url", Str(<<>>)) : d \in SelectorObjects}

\* the documents: text that is no JSON, and the text of each JSON object
JsonStrings ==
    {[decodes |-> FALSE, data |-> <<>>]}
    \cup {[decodes |-> TRUE, data |-> d] : d \in JsonObjects}

\* json.loads(json_string)
JsonLoads(document) ==
    IF document.decodes
    THEN Returned(document.data)
    ELSE Raised("JSONDecodeError", "")

\* {key: normalize_selector(value) for key, value in data.items()}
NormalizedData(data) == [key \in DOMAIN data |-> normalize_selector(data[key])]

\* ArticleSelectors(**normalized_data).model_dump(): every field of the
\* model, the ones the data does not name with their default ""
ModelDump(normalized_data) ==
    [i \in 1..Len(ArticleSelectors) |->
        IF ArticleSelectors[i] \in DOMAIN normalized_data
        THEN Str(normalized_data[ArticleSelectors[i]].val)
        ELSE Str(<<>>)]

\* _process_selectors up to the call of process_selectors: the mapping it
\* hands over, or the ParseError that wraps any exception
PreparedSelectors(data) ==
    IF \E key \in DOMAIN data : normalize_selector(data[key]).exc # "none"
    THEN Raised("ParseError", "Invalid selector data format: ")
    ELSE Returned(ModelDump(NormalizedData(data)))

\* the exception that leaves the entry point: _process_selectors wraps
\* every exception in ParseError
Escaping(entry, exc) ==
    IF entry = "parse_json_string" /\ exc # "none" THEN "ParseError" ELSE exc

\* ------------------------------------------------------------------------
\* State
\* ------------------------------------------------------------------------
VARIABLES
    call,       \* the entry point the caller invokes
    pc,         \* how far the call got
    input,      \* argument of normalize_selector / determine_selector_type
    norm1,      \* outcome of normalize_selector(input)
    norm2,      \* outcome of normalize_selector(norm1)
    info,       \* outcome of determine_selector_type(input)
    selectors,  \* the mapping handed to process_selectors, in item order
    result,     \* process_selectors' result dictionary
    raised,     \* the exception that left process_selectors, "none" if none
    score,      \* outcome of get_selector_specificity(input)
    heap,       \* the nested dictionaries, by the object that holds them
    base_results, \* first argument of merge_selector_results
    new_results,  \* second argument of merge_selector_results
    merged,     \* the dictionary merge_selector_results returns
    json_string \* argument of parse_json_string

vars == <<call, pc, input, norm1, norm2, info, selectors, result, raised, score,
          heap, base_results, new_results, merged, json_string>>

mergeVars == <<heap, base_results, new_results, merged>>

NoCall == [exc |-> "nocall", msg |-> "", val |-> <<>>]

EmptyResult == [processed_selectors |-> <<>>, all_valid |-> TRUE]

\* no call of parse_json_string is made
NoParse == json_string = [decodes |-> FALSE, data |-> <<>>]

\* no call of merge_selector_results is made
NoMerge ==
    /\ heap = EmptyHeap
    /\ base_results = <<>>
    /\ new_results = <<>>

\* a call of one entry point with its argument is about to be made
Init ==
    /\ pc = "start"
    /\ norm1 = NoCall
    /\ norm2 = NoCall
    /\ info = NoCall
    /\ result = EmptyResult
    /\ raised = "none"
    /\ score = NoCall
    /\ merged = <<>>
    /\ \/ /\ call \in {"normalize_selector", "determine_selector_type"}
          /\ input \in Inputs
          /\ selectors = <<>>
          /\ NoMerge
          /\ NoParse
       \/ /\ call = "get_selector_specificity"
          /\ input \in StringInputs
          /\ selectors = <<>>
          /\ NoMerge
          /\ NoParse
       \/ /\ call = "process_selectors"
          /\ input = PyNone
          /\ selectors \in Mappings
          /\ NoMerge
          /\ NoParse
       \/ /\ call = "merge_selector_results"
          /\ input = PyNone
          /\ selectors = <<>>
          /\ base_results \in ResultDicts("base")
          /\ new_results \in ResultDicts("new")
          /\ \E bp \in NestedChoices(base_results, "processed_selectors", "h1"),
                bh \in NestedChoices(base_results, "html_validation", TRUE),
                np \in NestedChoices(new_results, "processed_selectors", "div.content"),
                nh \in NestedChoices(new_results, "html_validation", FALSE) :
                heap = [EmptyHeap EXCEPT !["base.processed_selectors"] = bp,
                                         !["base.html_validation"] = bh,
                                         !["new.processed_selectors"] = np,
                                         !["new.html_validation"] = nh]
          /\ NoParse
       \/ /\ call = "parse_json_string"
          /\ input = PyNone
          /\ selectors = <<>>
          /\ NoMerge
          /\ json_string \in JsonStrings

\* normalize_selector(input)
Normalize ==
    /\ pc = "start"
    /\ call = "normalize_selector"
    /\ norm1' = normalize_selector(input)
    /\ pc' = "normalized"
    /\ UNCHANGED <<call, input, norm2, info, selectors, result, raised, score>>
    /\ UNCHANGED mergeVars
    /\ UNCHANGED json_string

\* the caller normalizes the returned string once more
NormalizeAgain ==
    /\ pc = "normalized"
    /\ norm1.exc = "none"
    /\ norm2' = normalize_selector(Str(norm1.val))
    /\ pc' = "renormalized"
    /\ UNCHANGED <<call, input, norm1, info, selectors, result, raised, score>>
    /\ UNCHANGED mergeVars
    /\ UNCHANGED json_string

\* SelectorValidator.determine_selector_type(input)
Classify(grammar_ok) ==
    /\ pc = "start"
    /\ call = "determine_selector_type"
    /\ info' = determine_selector_type(input, grammar_ok)
    /\ pc' = "classified"
    /\ UNCHANGED <<call, input, norm1, norm2, selectors, result, raised, score>>
    /\ UNCHANGED mergeVars
    /\ UNCHANGED json_string

\* SelectorValidator.process_selectors(selectors): result is initialised
ProcessSelectors ==
    /\ pc = "start"
    /\ call = "process_selectors"
    /\ result' = EmptyResult
    /\ pc' = "loop"
    /\ UNCHANGED <<call, input, norm1, norm2, info, selectors, raised, score>>
    /\ UNCHANGED mergeVars
    /\ UNCHANGED json_string

\* one iteration of process_selectors' loop
LoopStep(grammar_ok) ==
    /\ pc = "loop"
    /\ Len(result.processed_selectors) < Len(selectors)
    /\ LET field == Len(result.processed_selectors) + 1
           out == ProcessField(result, field, selectors[field], grammar_ok)
       IN  /\ result' = out.result
           /\ raised' = Escaping(call, out.exc)
           /\ pc' = IF out.exc = "none" THEN "loop" ELSE "raised"
    /\ UNCHANGED <<call, input, norm1, norm2, info, selectors, score>>
    /\ UNCHANGED mergeVars
    /\ UNCHANGED json_string

\* process_selectors returns result
LoopReturn ==
    /\ pc = "loop"
    /\ Len(result.processed_selectors) = Len(selectors)
    /\ pc' = "returned"
    /\ UNCHANGED <<call, input, norm1, norm2, info, selectors, result, raised, score>>
    /\ UNCHANGED mergeVars
    /\ UNCHANGED json_string

\* get_selector_specificity(input)
Specificity ==
    /\ pc = "start"
    /\ call = "get_selector_specificity"
    /\ score' = Returned(get_selector_specificity(input.s))
    /\ pc' = "scored"
    /\ UNCHANGED <<call, input, norm1, norm2, info, selectors, result, raised>>
    /\ UNCHANGED mergeVars
    /\ UNCHANGED json_string

\* merge_selector_results(base_results, new_results)
Merge ==
    /\ pc = "start"
    /\ call = "merge_selector_results"
    /\ LET out == merge_selector_results(base_results, new_results, heap)
       IN  /\ merged' = out.merged
           /\ heap' = out.heap
    /\ pc' = "merged"
    /\ UNCHANGED <<call, input, norm1, norm2, info, selectors, result, raised, score>>
    /\ UNCHANGED <<base_results, new_results, json_string>>

\* SelectorParser.parse_json_string(json_string) up to the loop of
\* process_selectors
ParseJsonString ==
    /\ pc = "start"
    /\ call = "parse_json_string"
    /\ LET data == JsonLoads(json_string)
           prepared == IF data.exc = "none"
                       THEN PreparedSelectors(data.val)
                       ELSE Raised("ParseError", "Invalid JSON string: ")
       IN  /\ selectors' = prepared.val
           /\ raised' = prepared.exc
           /\ pc' = IF prepared.exc = "none" THEN "loop" ELSE "raised"
    /\ result' = EmptyResult
    /\ UNCHANGED <<call, input, norm1, norm2, info, score, json_string>>
    /\ UNCHANGED mergeVars

Next ==
    \/ Normalize
    \/ NormalizeAgain
    \/ \E grammar_ok \in BOOLEAN : Classify(grammar_ok)
    \/ ProcessSelectors
    \/ \E grammar_ok \in BOOLEAN : LoopStep(grammar_ok)
    \/ LoopReturn
    \/ Specificity
    \/ Merge
    \/ ParseJsonString

Spec == Init /\ [][Next]_vars

\* ------------------------------------------------------------------------
\* Properties
\* ------------------------------------------------------------------------
IsStr(v) == v.py = "str"

\* the input is handled by the XPath branch of normalize_selector
XPathShaped(v) == IsStr(v) /\ v.s # <<>> /\ v.s[1] = "/"

\* the input is handled by the CSS branch of normalize_selector
CssShaped(v) == IsStr(v) /\ ~StartsWith(CollapseWhitespace(v.s), <<"/">>)

HasSpace(s) == \E k \in 1..Len(s) : s[k] \in PySpace

Records == result.processed_selectors

\* C1: normalize_selector is idempotent: normalizing the string it returned
\* gives that same string again, for CSS-shaped and XPath-shaped inputs.
C1_Idempotent ==
    pc = "renormalized" => norm2 = norm1

\* C2: for an input that starts with "/", normalization only reformats
\* bracket spacing: output and input have the same sequence of
\* non-whitespace characters.
C2_XPathKeepsCharacters ==
    (pc = "normalized" /\ XPathShaped(input))
        => /\ norm1.exc = "none"
           /\ NonSpace(norm1.val) = NonSpace(input.s)

\* C3: process_selectors never raises for a mapping of fields to selector
\* strings: no exception leaves it, and the result it returns has exactly
\* one record for every field, in the order of the fields.
C3_NeverRaises ==
    (call = "process_selectors" /\ \A i \in 1..Len(selectors) : IsStr(selectors[i]))
        => /\ pc # "raised"
           /\ pc = "returned"
                => /\ Len(Records) = Len(selectors)
                   /\ \A i \in 1..Len(Records) : Records[i].field = i

\* C4: in every result of process_selectors, all_valid is true if and only
\* if every record of processed_selectors has is_valid true; it holds of the
\* result after every iteration, and so of the one returned.
C4_AllValidIffEveryRecordValid ==
    pc \in {"loop", "returned"}
        => (result.all_valid <=> \A i \in 1..Len(Records) : Records[i].is_valid)

\* the batch {"a": "h1.title", "b": "[invalid[", "c": ""} was processed:
\* a valid record, an invalid one and an empty one, and all_valid false
C4_Witness ==
    /\ pc = "returned"
    /\ selectors = <<Str(S_h1_title), Str(S_invalid), Str(<<>>)>>
    /\ Records[1].is_valid /\ Records[1].type = "css selector"
    /\ ~Records[2].is_valid /\ Records[2].type = "invalid"
    /\ Records[3].is_valid /\ Records[3].type = "empty"
    /\ ~result.all_valid

\* C5: for every non-empty string determine_selector_type either returns a
\* valid record of kind css selector, xpath, tag name, id or class name, or
\* raises InvalidSelectorError; nothing else.
C5_ClassificationTotal ==
    (pc = "classified" /\ IsStr(input) /\ input.s # <<>>)
        => \/ info.exc = "InvalidSelectorError"
           \/ /\ info.exc = "none"
              /\ info.val.is_valid
              /\ info.val.selector_type \in
                    {"css selector", "xpath", "tag name", "id", "class name"}

\* C6: CSS normalization emits a space only where whitespace sat between
\* two word-like tokens of the input: an input without any whitespace, such
\* as div#id, comes back without any space.
C6_SpaceOnlyFromWhitespace ==
    (pc = "normalized" /\ CssShaped(input) /\ ~HasSpace(input.s) /\ norm1.exc = "none")
        => ~HasSpace(norm1.val)

\* two compound selectors separated by one space, the right-hand one
\* starting with an identifier, "#", ".", ":" and "["
DescendantSelectors ==
    {S_desc_ident, S_desc_id, S_desc_class, S_desc_pseudo, S_desc_attr}

\* C7: CSS normalization preserves the descendant combinator: two compound
\* selectors separated by whitespace alone come back with exactly one space
\* between them, whatever the right-hand compound starts with.
C7_DescendantPreserved ==
    (pc = "normalized" /\ IsStr(input) /\ input.s \in DescendantSelectors)
        => norm1 = Returned(input.s)

Unquote(s) == SelectSeq(s, LAMBDA c : c \notin {"\"", "'"})

\* C8: CSS normalization removes the quotes of a quoted attribute value:
\* input[value="x"] comes back as input[value=x].
C8_AttributeValueUnquoted ==
    (pc = "normalized" /\ IsStr(input) /\ input.s \in {S_quoted, S_quoted_single})
        => norm1 = Returned(Unquote(input.s))

EmptyOrInvalidType == Raised("InvalidSelectorError", "Empty or invalid selector type")

\* C9: determine_selector_type raises InvalidSelectorError "Empty or invalid
\* selector type" when its argument is the empty string or not a string,
\* whatever normalization or a grammar check would have answered.
C9_EmptyOrNonStringRejected ==
    (pc = "classified" /\ (~IsStr(input) \/ input.s = <<>>))
        => info = EmptyOrInvalidType

\* a non-string argument, which normalize_selector would fail on with
\* AttributeError, was rejected
C9_Witness ==
    /\ pc = "classified"
    /\ input = PyInt
    /\ normalize_selector(input).exc = "AttributeError"
    /\ info = EmptyOrInvalidType

NormalizesToEmpty(v) == normalize_selector(v) = Returned(<<>>)

\* C10 as stated: when its input normalizes to the empty string,
\* determine_selector_type returns a valid record of kind empty with
\* specificity (0,0,0).
C10_ClassifyReturnsEmpty ==
    (pc = "classified" /\ IsStr(input) /\ NormalizesToEmpty(input))
        => /\ info.exc = "none"
           /\ info.val.selector_type = "empty"
           /\ info.val.is_valid
           /\ info.val.specificity = <<0, 0, 0>>

\* C10 amended: when its input normalizes to the empty string,
\* determine_selector_type raises InvalidSelectorError (with the message
\* "Empty or invalid selector type" for the empty string itself) and returns
\* no record; the valid record of kind empty with specificity (0,0,0) is what
\* process_selectors stores for such a field.
C10_EmptyRaisesInClassify ==
    /\ (pc = "classified" /\ IsStr(input) /\ NormalizesToEmpty(input))
            => /\ info.exc = "InvalidSelectorError"
               /\ input.s = <<>> => info = EmptyOrInvalidType
    /\ pc \in {"loop", "returned", "raised"}
            => \A i \in 1..Len(Records) :
                    NormalizesToEmpty(selectors[i])
                        => /\ Records[i].type = "empty"
                           /\ Records[i].is_valid
                           /\ Records[i].specificity = <<0, 0, 0>>

\* a whitespace-only string was classified, and the CSS grammar check was
\* the one to reject it
C10_Witness ==
    /\ pc = "classified"
    /\ input = Str(S_blank)
    /\ NormalizesToEmpty(input)
    /\ info = Raised("InvalidSelectorError", "Invalid CSS selector: ")

\* the text determine_selector_type classifies: its argument, normalized
NormalizedInput == normalize_selector(input).val

NormalizesTo(v) == IsStr(v) /\ v.s # <<>> /\ normalize_selector(v).exc = "none"

XPathPrefixed(s) == StartsWith(s, <<"/", "/">>) \/ StartsWith(s, <<"(", "/", "/">>)

XPathRecord(s) == Returned(SelectorInfo(s, "xpath", s, <<0, 0, 0>>))

\* C11: a normalized selector that starts with // or (// is decided by the
\* XPath check alone: accepted, the outcome is the valid xpath record whose
\* processed_selector is the normalized text; rejected, InvalidSelectorError
\* "Invalid XPath expression: ..." is raised, and no later rule classifies it.
C11_XPathDecidesAlone ==
    [][\A grammar_ok \in BOOLEAN :
          (Classify(grammar_ok) /\ NormalizesTo(input) /\ XPathPrefixed(NormalizedInput))
              => info' = IF grammar_ok
                         THEN XPathRecord(NormalizedInput)
                         ELSE Raised("InvalidSelectorError", "Invalid XPath expression: ")]_vars

\* "//[invalid" was rejected by the XPath check
C11_Witness ==
    /\ pc = "classified"
    /\ input = Str(S_xpath_bad)
    /\ XPathPrefixed(NormalizedInput)
    /\ info = Raised("InvalidSelectorError", "Invalid XPath expression: ")

TagRecord(s) == Returned(SelectorInfo(s, "tag name", LowerStr(s), <<0, 0, 1>>))

\* s is an allow-listed tag name followed by "." or "#" and a name
TagWithPart(s) ==
    \E k \in 2..(Len(s) - 1) :
        /\ s[k] \in {".", "#"}
        /\ LowerStr(Slice(s, 1, k - 1)) \in HTML_TAGS
        /\ s[k + 1] \in Letters
        /\ \A j \in (k + 1)..Len(s) : s[j] \in WordHyphen

\* C12: tag-only precedence: a selector whose normalized text is, in any
\* letter case, a name of HTML_TAGS is classified tag name, with the
\* lower-cased name as processed_selector and specificity (0,0,1); a tag name
\* followed by a class or id part is never classified tag name, and is
\* classified css selector when the CSS grammar check accepts it.
C12_TagOnlyPrecedence ==
    [][\A grammar_ok \in BOOLEAN :
          (Classify(grammar_ok) /\ NormalizesTo(input))
              => /\ LowerStr(NormalizedInput) \in HTML_TAGS
                        => info' = TagRecord(NormalizedInput)
                 /\ TagWithPart(input.s)
                        => IF grammar_ok
                           THEN /\ info'.exc = "none"
                                /\ info'.val.selector_type = "css selector"
                                /\ info'.val.is_valid
                           ELSE info' = Raised("InvalidSelectorError", "Invalid CSS selector: ")]_vars

\* "DIV" was classified as the tag div
C12_Witness ==
    /\ pc = "classified"
    /\ input = Str(S_div_upper)
    /\ info = Returned(SelectorInfo(S_div_upper, "tag name", S_div, <<0, 0, 1>>))

\* position k of s starts c followed by a word character
PartAt(s, k, c) == s[k] = c /\ k < Len(s) /\ s[k + 1] \in WordHyphen

HasPart(s, c) == \E k \in 1..Len(s) : PartAt(s, k, c)

\* the word after the first c that a word character follows
FirstPart(s, c) ==
    LET k == CHOOSE k \in 1..Len(s) :
                 PartAt(s, k, c) /\ \A j \in 1..(k - 1) : ~PartAt(s, j, c)
    IN  Slice(s, k + 1, SkipWhile(s, k + 1, WordHyphen) - 1)

NoLeadingTag(s) == s = <<>> \/ s[1] \notin WordHyphen

\* no earlier rule of determine_selector_type takes s
NeitherXPathNorTag(s) == ~XPathPrefixed(s) /\ LowerStr(s) \notin HTML_TAGS

\* C13: id rule: a selector that is neither XPath-prefixed nor a bare
\* allow-listed tag, with an id and no class, attribute or leading tag, is
\* classified id, valid, with "#" and the first id as processed_selector and
\* specificity (1,0,0), whatever the CSS grammar check would answer.
C13_IdRule ==
    [][\A grammar_ok \in BOOLEAN :
          ( /\ Classify(grammar_ok)
            /\ NormalizesTo(input)
            /\ NeitherXPathNorTag(NormalizedInput)
            /\ HasPart(NormalizedInput, "#")
            /\ ~HasPart(NormalizedInput, ".")
            /\ FindAllAttributes(NormalizedInput) = <<>>
            /\ NoLeadingTag(NormalizedInput) )
              => info' = Returned(SelectorInfo(NormalizedInput, "id",
                                   <<"#">> \o FirstPart(NormalizedInput, "#"),
                                   <<1, 0, 0>>))]_vars

\* "#date" was classified as the id #date
C13_Witness ==
    /\ pc = "classified"
    /\ input = Str(S_date)
    /\ info = Returned(SelectorInfo(S_date, "id", S_date, <<1, 0, 0>>))

\* C14: class rule: a selector no earlier rule takes, with at least one
\* class and no id, attribute or leading tag, is classified class name,
\* valid, with "." and the first class alone as processed_selector and
\* specificity (0,1,0).
C14_ClassRule ==
    [][\A grammar_ok \in BOOLEAN :
          ( /\ Classify(grammar_ok)
            /\ NormalizesTo(input)
            /\ NeitherXPathNorTag(NormalizedInput)
            /\ HasPart(NormalizedInput, ".")
            /\ ~HasPart(NormalizedInput, "#")
            /\ FindAllAttributes(NormalizedInput) = <<>>
            /\ NoLeadingTag(NormalizedInput) )
              => info' = Returned(SelectorInfo(NormalizedInput, "class name",
                                   <<".">> \o FirstPart(NormalizedInput, "."),
                                   <<0, 1, 0>>))]_vars

\* ".intro.lead" was classified as the class .intro, the second class dropped
C14_Witness ==
    /\ pc = "classified"
    /\ input = Str(S_two_classes)
    /\ Len(FindAllAfter(S_two_classes, ".")) = 2
    /\ info = Returned(SelectorInfo(S_two_classes, "class name",
                                    <<".", "i", "n", "t", "r", "o">>, <<0, 1, 0>>))

\* the field the next iteration of process_selectors' loop handles
NextField == Len(Records) + 1

\* the normalized text of that field's selector
NextNormalized == normalize_selector(selectors[NextField]).val

\* C15: when determine_selector_type raises InvalidSelectorError for a
\* field, process_selectors stores for it a record of type "invalid" with
\* is_valid false, the normalized selector as processed, the text of the
\* exception as message and specificity (0,0,0), sets all_valid to false,
\* and goes on with the loop.
C15_InvalidRecord ==
    [][\A grammar_ok \in BOOLEAN :
          ( /\ LoopStep(grammar_ok)
            /\ normalize_selector(selectors[NextField]).exc = "none"
            /\ NextNormalized # <<>>
            /\ determine_selector_type(Str(NextNormalized), grammar_ok).exc
                    = "InvalidSelectorError" )
              => /\ result'.processed_selectors =
                      Append(Records,
                             [ field |-> NextField,
                               type |-> "invalid",
                               processed |-> NextNormalized,
                               is_valid |-> FALSE,
                               message |-> determine_selector_type(
                                               Str(NextNormalized), grammar_ok).msg,
                               specificity |-> <<0, 0, 0>> ])
                 /\ ~result'.all_valid
                 /\ pc' = "loop"]_vars

\* "[invalid[" was stored as invalid, under its normalized text "[invalid[]]"
C15_Witness ==
    /\ pc = "returned"
    /\ selectors = <<Str(S_invalid)>>
    /\ Records[1].type = "invalid"
    /\ Records[1].processed = S_invalid \o <<"]", "]">>
    /\ Records[1].message = "Invalid CSS selector: "
    /\ ~Records[1].is_valid
    /\ ~result.all_valid

\* C16 as stated: every record of kind xpath that determine_selector_type
\* returns or process_selectors stores has a processed_selector that begins
\* with "/".
C16_XPathBeginsWithSlash ==
    /\ (pc = "classified" /\ info.exc = "none" /\ info.val.selector_type = "xpath")
            => StartsWith(info.val.processed_selector, <<"/">>)
    /\ \A i \in 1..Len(Records) :
            Records[i].type = "xpath" => StartsWith(Records[i].processed, <<"/">>)

\* C16 amended: every record of kind xpath that determine_selector_type
\* returns or process_selectors stores has a processed_selector that begins
\* with "//" or with "(//".
C16_XPathBeginsWithPrefix ==
    /\ (pc = "classified" /\ info.exc = "none" /\ info.val.selector_type = "xpath")
            => XPathPrefixed(info.val.processed_selector)
    /\ \A i \in 1..Len(Records) :
            Records[i].type = "xpath" => XPathPrefixed(Records[i].processed)

\* "(//div)[1]" was classified xpath and kept its opening parenthesis
C16_Witness ==
    /\ pc = "classified"
    /\ input = Str(S_xpath_group)
    /\ info.exc = "none"
    /\ info.val.selector_type = "xpath"
    /\ info.val.processed_selector = S_xpath_group

\* C17: normalization treats an input that is not a string like the empty
\* string: normalize_selector returns "" for it and does not raise, and
\* process_selectors records a field with such a value as kind empty.
C17_NonStringLikeEmpty ==
    /\ (pc = "normalized" /\ ~IsStr(input)) => norm1 = Returned(<<>>)
    /\ call = "process_selectors"
            => /\ \A i \in 1..Len(Records) :
                      ~IsStr(selectors[i]) => Records[i].type = "empty"
               /\ pc = "raised" => IsStr(selectors[NextField])

\* number of "#" of s that a word character follows
IdOccurrences(s) == Cardinality({k \in 1..Len(s) : PartAt(s, k, "#")})

\* C18: get_selector_specificity returns, for every selector string, the
\* number of #id occurrences (repeated ids counted each time), the number
\* of extracted classes, attribute predicates and pseudo names together,
\* and 1 if a leading tag was extracted, else 0; (1,3,1) for
\* div#id.class[attr]:hover.
C18_Specificity ==
    pc = "scored"
        => /\ score.exc = "none"
           /\ score.val[1] = IdOccurrences(input.s)
           /\ score.val[2] = Len(extract_selector_parts(input.s).classes)
                             + Len(extract_selector_parts(input.s).attributes)
                             + Len(extract_selector_parts(input.s).pseudo)
           /\ score.val[3] = (IF NoLeadingTag(input.s) THEN 0 ELSE 1)
           /\ input.s = S_specificity => score.val = <<1, 3, 1>>
           /\ input.s = S_div => score.val = <<0, 0, 1>>
           /\ input.s = S_div_id => score.val = <<1, 0, 1>>
           /\ input.s = S_div_x => score.val = <<0, 1, 1>>

\* "#x#x" was scored with both occurrences of the id
C18_Witness ==
    /\ pc = "scored"
    /\ input = Str(S_repeated_id)
    /\ score = Returned(<<2, 0, 0>>)

\* C19 as stated: in every record process_selectors produced, the message
\* is the empty string whenever is_valid is true, records of kind empty
\* included.
C19_ValidHasNoMessage ==
    \A i \in 1..Len(Records) : Records[i].is_valid => Records[i].message = ""

\* C19 amended: in every record process_selectors produced, whenever
\* is_valid is true the message is the empty string, except in a record of
\* kind empty, whose message is "Empty selector".
C19_ValidMessage ==
    \A i \in 1..Len(Records) :
        Records[i].is_valid
            => Records[i].message =
                    (IF Records[i].type = "empty" THEN "Empty selector" ELSE "")

\* a valid css record without message and an empty record with its message
C19_Witness ==
    /\ pc = "returned"
    /\ selectors = <<Str(S_h1_title), Str(<<>>)>>
    /\ Records[1].type = "css selector" /\ Records[1].is_valid /\ Records[1].message = ""
    /\ Records[2].type = "empty" /\ Records[2].is_valid
    /\ Records[2].message = "Empty selector"

\* the characters _normalize_css removes whitespace around
TightCharacters == {">", "+", "~", ",", "[", "]", "="}

\* s without leading and trailing whitespace and without the whitespace
\* next to a character of TightCharacters
Tight(s) == Strip(RemoveSpaceAround(s, TightCharacters))

SpaceNextTo(s, S) ==
    \E k \in 1..(Len(s) - 1) :
        \/ s[k] \in PySpace /\ s[k + 1] \in S
        \/ s[k] \in S /\ s[k + 1] \in PySpace

\* C20: whitespace invariance: a CSS selector and the same selector
\* without its leading and trailing whitespace and without the whitespace
\* around > + ~ , [ ] = normalize to the same string, in which no
\* whitespace is next to any of these characters.
C20_WhitespaceInvariance ==
    (pc = "normalized" /\ CssShaped(input) /\ CssShaped(Str(Tight(input.s)))
        /\ norm1.exc = "none")
        => /\ normalize_selector(Str(Tight(input.s))) = norm1
           /\ ~SpaceNextTo(norm1.val, TightCharacters)

\* C23: for every field whose record process_selectors stored with type
\* "css selector" or "xpath", the processed string is normalize_selector
\* applied once to the field's input, although the input is normalized by
\* process_selectors and again by determine_selector_type.
C23_ProcessedIsNormalizedOnce ==
    \A i \in 1..Len(Records) :
        Records[i].type \in {"css selector", "xpath"}
            => Records[i].processed = normalize_selector(selectors[i]).val

\* the normalized input has no leading tag and no attribute predicate, and
\* neither the XPath rule nor the tag rule takes it
PartsRulesApply ==
    /\ pc = "classified"
    /\ NormalizesTo(input)
    /\ NeitherXPathNorTag(NormalizedInput)
    /\ NoLeadingTag(NormalizedInput)
    /\ FindAllAttributes(NormalizedInput) = <<>>

IdRecord(s) ==
    Returned(SelectorInfo(s, "id", <<"#">> \o FirstPart(s, "#"), <<1, 0, 0>>))

ClassRecord(s) ==
    Returned(SelectorInfo(s, "class name", <<".">> \o FirstPart(s, "."), <<0, 1, 0>>))

\* C24 as stated: a normalized selector that has an id (resp. a class) but
\* no leading tag and no attribute predicate is returned as id (resp. class
\* name), reduced to #id (resp. .firstClass), whatever else it contains and
\* whatever the CSS grammar check would answer.
C24_PartsOnly ==
    PartsRulesApply
        => /\ HasPart(NormalizedInput, "#") => info = IdRecord(NormalizedInput)
           /\ HasPart(NormalizedInput, ".") => info = ClassRecord(NormalizedInput)

\* C24 amended: a normalized selector that has an id and no class (resp. a
\* class and no id), no leading tag and no attribute predicate is returned
\* as id (resp. class name), reduced to #id (resp. .firstClass), even when
\* it also holds pseudo-classes, combinators or further compound selectors,
\* and whatever the CSS grammar check would answer.
C24_PartsOnlyExclusive ==
    PartsRulesApply
        => /\ (HasPart(NormalizedInput, "#") /\ ~HasPart(NormalizedInput, "."))
                => info = IdRecord(NormalizedInput)
           /\ (HasPart(NormalizedInput, ".") /\ ~HasPart(NormalizedInput, "#"))
                => info = ClassRecord(NormalizedInput)

\* "#a>span" was classified as the id #a, its child combinator dropped
C24_Witness ==
    /\ pc = "classified"
    /\ input = Str(S_id_child)
    /\ info = Returned(SelectorInfo(S_id_child, "id", <<"#", "a">>, <<1, 0, 0>>))

\* what a result dictionary holds, nested dictionaries included
Contents(d, objects) ==
    [k \in DOMAIN d |-> IF k \in NestedKeys THEN objects[d[k]] ELSE d[k]]

\* the nested dictionary of d under key, empty when d has none
NestedOf(d, key, objects) == IF key \in DOMAIN d THEN objects[d[key]] ELSE <<>>

\* the returned dictionary holds, under key, the entries of both arguments
HoldsUnion(key) ==
    key \in DOMAIN merged'
        => heap'[merged'[key]] = Update(NestedOf(base_results, key, heap),
                                        NestedOf(new_results, key, heap))

\* C21: merge_selector_results is non-destructive: when it returns, base and
\* new, nested processed_selectors and html_validation dictionaries
\* included, hold what they held before the call, and the returned
\* dictionary holds the field-wise union with all_valid the AND of both flags.
C21_MergeNonDestructive ==
    [][Merge =>
        /\ Contents(base_results', heap') = Contents(base_results, heap)
        /\ Contents(new_results', heap') = Contents(new_results, heap)
        /\ \A key \in NestedKeys :
               /\ key \in DOMAIN merged'
                    <=> (key \in DOMAIN base_results \/ key \in DOMAIN new_results)
               /\ HoldsUnion(key)
        /\ ("all_valid" \in DOMAIN base_results /\ "all_valid" \in DOMAIN new_results)
               => merged'["all_valid"]
                    = (base_results["all_valid"] /\ new_results["all_valid"])
      ]_vars

\* the JSON object of the document
JsonData == json_string.data

\* the selector keys the JSON object has
SelectorFieldsPresent == DOMAIN JsonData \cap {ArticleSelectors[i] : i \in 2..5}

\* C22: parse_json_string returns exactly one processed record per selector
\* field present in the JSON object: with the four selector keys, all
\* valid, processed_selectors has exactly 4 entries and all_valid is true.
C22_OneRecordPerPresentField ==
    (call = "parse_json_string" /\ pc = "returned")
        => /\ Len(Records) = Cardinality(SelectorFieldsPresent)
           /\ (Cardinality(SelectorFieldsPresent) = 4
                 /\ \A i \in 1..Len(Records) : Records[i].is_valid)
                => (Len(Records) = 4 /\ result.all_valid)

====
